---------------------------- MODULE Spec2Model ----------------------------
(***************************************************************************)
(* Model of the Strava chain tracker (src/strava_chain_tracker.py): the    *)
(* pipeline run by main() after the activities have been fetched, i.e.     *)
(* filter_ride_activities followed by aggregate_kilometers, with the       *)
(* marker predicates has_chain_start_emoji / has_chain_end_emoji computed  *)
(* on the activities' text fields.  src/strava_chain_checker_html.py runs   *)
(* the same pipeline (its aggregate_kilometers and marker predicates are   *)
(* the same code) and then generate_html and save_html, which are the last *)
(* two steps of the model.                                                 *)
(*                                                                         *)
(* Representation.                                                         *)
(*  - A Python str is a sequence of code points; the optional fields name  *)
(*    and description are either such a sequence or None.                  *)
(*  - A timezone-aware datetime is [instant, tzinfo]; the instant is a day *)
(*    number.                                                              *)
(*  - activity.distance is a whole number of metres.  Kilometre values     *)
(*    (floats in the program) are fixed-point numbers counted in           *)
(*    thousandths of a kilometre, so that rounding to 2 decimals is        *)
(*    rounding to a multiple of 10 thousandths.                            *)
(***************************************************************************)
EXTENDS Naturals, Sequences, FiniteSets

VARIABLES
    all_activities,   \* main: the list returned by fetch_all_activities
    ride_activities,  \* main: the filtered list; sorted in place by aggregate_kilometers
    chains,           \* aggregate_kilometers: the output list
    current_chain,    \* aggregate_kilometers: the open chain, or None
    in_chain,         \* aggregate_kilometers: the in_chain flag
    i,                \* position of the for loop in ride_activities (1-based)
    is_chain_start,   \* loop local, line 117
    is_chain_end,     \* loop local, line 118
    distance_km,      \* loop local, line 121 (thousandths of a km)
    activity_date,    \* loop local, line 122
    html_content,     \* html main: the document returned by generate_html
    website,          \* the file written by save_html
    pc                \* "filter", "sort", "loop", "body", "done", then
                      \* "generated", "saved" or "error"

vars == <<all_activities, ride_activities, chains, current_chain, in_chain, i,
          is_chain_start, is_chain_end, distance_km, activity_date,
          html_content, website, pc>>

---------------------------------------------------------------------------
(* Bounds of the model *)

\* Longest input list.
MaxActs == 3

\* Longest text field enumerated exhaustively for the marker predicates.
MaxTextLen == 4

---------------------------------------------------------------------------
(* Text values *)

\* Python's None for an optional text field (no code point is "None").
None == <<"None">>

\* CHAIN_START_EMOJI: U+26D3 U+FE0F.
CHAIN_START_EMOJI == <<"U26D3", "UFE0F">>

\* CHAIN_END_EMOJI: U+26D3 U+FE0F U+200D U+1F4A5.
CHAIN_END_EMOJI == <<"U26D3", "UFE0F", "U200D", "U1F4A5">>

\* Python truthiness of an optional str: neither None nor ''.
Truthy(text) == text # None /\ text # <<>>

\* Python's `sub in text` on str.
Contains(text, sub) ==
    \E k \in 0..Len(text) :
        /\ k + Len(sub) <= Len(text)
        /\ SubSeq(text, k + 1, k + Len(sub)) = sub

\* A variant that lets an end marker in either field suppress the start signal.
has_chain_start_emoji_EndAnywhere(activity) ==
    /\ \/ Truthy(activity.name) /\ Contains(activity.name, CHAIN_START_EMOJI)
       \/ Truthy(activity.description)
            /\ Contains(activity.description, CHAIN_START_EMOJI)
    /\ ~(Truthy(activity.name) /\ Contains(activity.name, CHAIN_END_EMOJI))
    /\ ~(Truthy(activity.description)
            /\ Contains(activity.description, CHAIN_END_EMOJI))

has_chain_start_emoji(activity) ==
    IF /\ Truthy(activity.name)
       /\ Contains(activity.name, CHAIN_START_EMOJI)
       /\ ~Contains(activity.name, CHAIN_END_EMOJI)
    THEN TRUE
    ELSE IF /\ Truthy(activity.description)
            /\ Contains(activity.description, CHAIN_START_EMOJI)
            /\ ~Contains(activity.description, CHAIN_END_EMOJI)
         THEN TRUE
         ELSE FALSE

has_chain_end_emoji(activity) ==
    IF Truthy(activity.name) /\ Contains(activity.name, CHAIN_END_EMOJI)
    THEN TRUE
    ELSE IF /\ Truthy(activity.description)
            /\ Contains(activity.description, CHAIN_END_EMOJI)
         THEN TRUE
         ELSE FALSE

---------------------------------------------------------------------------
(* Numbers and dates *)

\* Metres in a kilometre (unithelper.kilometers).
MetersPerKm == 1000

\* Thousandths in one kilometre of the fixed-point representation.
KmUnit == 1000

\* float(unithelper.kilometers(activity.distance)), in thousandths of a km.
Kilometers(distance) == (distance * KmUnit) \div MetersPerKm

\* round(x, 2): the nearest multiple of 10 thousandths, a tie going to the
\* even hundredth.  (CPython rounds the exact binary value of the float, so a
\* decimal tie may fall either way there; the distances enumerated below avoid
\* ties.)
Round2(x) ==
    LET q == x \div 10
        r == x % 10
    IN  IF r < 5 THEN 10 * q
        ELSE IF r > 5 THEN 10 * (q + 1)
        ELSE IF q % 2 = 0 THEN 10 * q ELSE 10 * (q + 1)

\* start_date.replace(tzinfo=None): same wall-clock fields, no timezone.
ReplaceTzinfoNone(date) == [date EXCEPT !.tzinfo = "None"]

---------------------------------------------------------------------------
(* filter_ride_activities and the sort of aggregate_kilometers *)

\* A variant that keeps the activities of every type.
filter_ride_activities_AllTypes(activities) == activities

filter_ride_activities(activities) ==
    SelectSeq(activities, LAMBDA activity : activity.type = "Ride")

\* One insertion of a stable sort: after every element whose key is <= a's.
InsertByStartDate(sorted, a) ==
    LET k == Cardinality({j \in 1..Len(sorted) :
                            sorted[j].start_date.instant <= a.start_date.instant})
    IN  SubSeq(sorted, 1, k) \o <<a>> \o SubSeq(sorted, k + 1, Len(sorted))

RECURSIVE StableSort(_)
StableSort(activities) ==
    IF activities = <<>> THEN <<>>
    ELSE InsertByStartDate(StableSort(SubSeq(activities, 1, Len(activities) - 1)),
                           activities[Len(activities)])

\* A variant that leaves the list in the order it came in.
SortByStartDate_NoSort(activities) == activities

\* activities.sort(key=lambda a: a.start_date): stable, ascending.
SortByStartDate(activities) == StableSort(activities)

---------------------------------------------------------------------------
(* The loop body of aggregate_kilometers, as a function of the loop state  *)
(* st = [chains, current_chain, in_chain] and the locals of the iteration  *)
(* loc = [is_chain_start, is_chain_end, distance_km, activity_date].       *)

\* current_chain = None
NoChain == [none |-> TRUE]

\* Lines 117-122: the locals computed for one activity.
Locals(activity) ==
    [is_chain_start |-> has_chain_start_emoji(activity),
     is_chain_end   |-> has_chain_end_emoji(activity),
     distance_km    |-> Kilometers(activity.distance),
     activity_date  |-> ReplaceTzinfoNone(activity.start_date)]

\* A variant that starts the new chain without finalizing the open one.
StartChain_NoFinalize(st, loc) ==
    IF loc.is_chain_start
    THEN [chains |-> st.chains,
          current_chain |-> [start_date |-> loc.activity_date,
                             end_date   |-> loc.activity_date,
                             activities |-> <<>>,
                             total_km   |-> 0],
          in_chain |-> TRUE]
    ELSE st

\* A variant that starts a chain on either marker.
StartChain_OnAnyMarker(st, loc) ==
    IF loc.is_chain_start \/ loc.is_chain_end
    THEN [chains |-> IF st.in_chain /\ st.current_chain # NoChain
                     THEN Append(st.chains, st.current_chain)
                     ELSE st.chains,
          current_chain |-> [start_date |-> loc.activity_date,
                             end_date   |-> loc.activity_date,
                             activities |-> <<>>,
                             total_km   |-> 0],
          in_chain |-> TRUE]
    ELSE st

\* Lines 125-137: a start marker finalizes the open chain and starts a new one.
StartChain(st, loc) ==
    IF loc.is_chain_start
    THEN [chains |-> IF st.in_chain /\ st.current_chain # NoChain
                     THEN Append(st.chains, st.current_chain)
                     ELSE st.chains,
          current_chain |-> [start_date |-> loc.activity_date,
                             end_date   |-> loc.activity_date,
                             activities |-> <<>>,
                             total_km   |-> 0],
          in_chain |-> TRUE]
    ELSE st

\* Lines 141-148: the entry appended to the chain.
Entry(activity, loc) ==
    [id             |-> activity.id,
     name           |-> activity.name,
     date           |-> loc.activity_date,
     distance_km    |-> Round2(loc.distance_km),
     is_chain_start |-> loc.is_chain_start,
     is_chain_end   |-> loc.is_chain_end]

\* A variant that accumulates the rounded distance shown in the entry.
TotalIncrement_Rounded(loc) == Round2(loc.distance_km)

\* Line 150: the amount added to total_km.
TotalIncrement(loc) == loc.distance_km

\* A variant that closes the chain on an end marker before the activity is
\* appended to it.
AddActivity_CloseBeforeAppend(st, activity, loc) ==
    IF st.in_chain /\ st.current_chain # NoChain
    THEN IF loc.is_chain_end
         THEN [chains        |-> Append(st.chains, st.current_chain),
               current_chain |-> NoChain,
               in_chain      |-> FALSE]
         ELSE [st EXCEPT !.current_chain =
                   [st.current_chain EXCEPT
                       !.activities = Append(@, Entry(activity, loc)),
                       !.total_km   = @ + TotalIncrement(loc),
                       !.end_date   = loc.activity_date]]
    ELSE st

\* Lines 140-157: the activity joins the open chain; an end marker closes it.
AddActivity(st, activity, loc) ==
    IF st.in_chain /\ st.current_chain # NoChain
    THEN LET extended ==
                 [st.current_chain EXCEPT
                     !.activities = Append(@, Entry(activity, loc)),
                     !.total_km   = @ + TotalIncrement(loc),
                     !.end_date   = loc.activity_date]
         IN  IF loc.is_chain_end
             THEN [chains        |-> Append(st.chains, extended),
                   current_chain |-> NoChain,
                   in_chain      |-> FALSE]
             ELSE [st EXCEPT !.current_chain = extended]
    ELSE st

\* Lines 125-157 for one activity.
ProcessActivity(st, activity, loc) ==
    AddActivity(StartChain(st, loc), activity, loc)

\* Lines 160-163: the chain still open at the end of the input is added.
FinalChains(st) ==
    IF /\ st.in_chain
       /\ st.current_chain # NoChain
       /\ st.current_chain.activities # <<>>
    THEN Append(st.chains, st.current_chain)
    ELSE st.chains

RECURSIVE FoldActivities(_, _)
FoldActivities(sorted, n) ==
    IF n = 0
    THEN [chains |-> <<>>, current_chain |-> NoChain, in_chain |-> FALSE]
    ELSE ProcessActivity(FoldActivities(sorted, n - 1), sorted[n], Locals(sorted[n]))

\* aggregate_kilometers as a function from the list to the returned chains.
aggregate_kilometers(activities) ==
    LET sorted == SortByStartDate(activities)
    IN  FinalChains(FoldActivities(sorted, Len(sorted)))

---------------------------------------------------------------------------
(* generate_html (src/strava_chain_checker_html.py) *)

\* No document generated yet; no file written yet.
NoHtml == [none |-> TRUE]
NoFile == [none |-> TRUE]

\* Lines 308-313: running_total after row k, the sum of the rounded
\* distance_km of the first k members.
RECURSIVE RunningTotal(_, _)
RunningTotal(chain, k) ==
    IF k = 0 THEN 0
    ELSE RunningTotal(chain, k - 1) + chain.activities[k].distance_km

\* Line 316: Python's division raises ZeroDivisionError on a zero divisor.
DivisionRaises(total_km) == total_km = 0

\* Line 316: (running_total / chain['total_km']) * 100, in thousandths of a
\* percent (truncated); only taken when the division does not raise.
ProgressPercent(running_total, total_km) ==
    (running_total * 100 * KmUnit) \div total_km

\* Lines 308-337: the rows of one chain's table.
ChainRows(chain) ==
    [k \in 1..Len(chain.activities) |->
        [name             |-> chain.activities[k].name,
         distance         |-> chain.activities[k].distance_km,
         running_total    |-> RunningTotal(chain, k),
         progress_percent |-> ProgressPercent(RunningTotal(chain, k), chain.total_km)]]

\* Lines 273-344: the section of one chain.
ChainSection(chain) ==
    [start_date |-> chain.start_date,
     end_date   |-> chain.end_date,
     total_km   |-> chain.total_km,
     rides      |-> Len(chain.activities),
     rows       |-> ChainRows(chain)]

\* generate_html raises when the loop reaches a row (a chain with a member)
\* whose chain has total_km = 0.
generate_html_raises(chain_list) ==
    \E k \in 1..Len(chain_list) :
        /\ Len(chain_list[k].activities) >= 1
        /\ DivisionRaises(chain_list[k].total_km)

\* generate_html when it returns: the document, one section per chain.
generate_html(chain_list) ==
    [sections |-> [k \in 1..Len(chain_list) |-> ChainSection(chain_list[k])]]

---------------------------------------------------------------------------
(* Inputs *)

START == CHAIN_START_EMOJI
END   == CHAIN_END_EMOJI

\* The activities the input lists are built from: text fields, type and
\* distance in metres.  Rides without marker, with a start marker, with an end
\* marker and with both, and runs that carry markers.
Catalogue ==
    { [name |-> <<"a">>,           description |-> None,    type |-> "Ride", distance |-> 1004],
      [name |-> START \o <<"a">>,  description |-> <<>>,    type |-> "Ride", distance |-> 2503],
      [name |-> <<"a">>,           description |-> END,     type |-> "Ride", distance |-> 1506],
      [name |-> END,               description |-> START,   type |-> "Ride", distance |-> 0],
      [name |-> START,             description |-> None,    type |-> "Run",  distance |-> 5002],
      [name |-> None,              description |-> END,     type |-> "Run",  distance |-> 3001] }

\* The ways n activities can be dated: the days used are 1..m for some m <= n,
\* so the list may come in any order and two activities may share a timestamp.
DateAssignments(n) ==
    {d \in [1..n -> 1..n] :
        \A v \in 2..n : (\E j \in 1..n : d[j] = v) => (\E j \in 1..n : d[j] = v - 1)}

MkActivity(id, kind, day) ==
    [id          |-> id,
     name        |-> kind.name,
     description |-> kind.description,
     type        |-> kind.type,
     start_date  |-> [instant |-> day, tzinfo |-> "UTC"],
     distance    |-> kind.distance]

\* The input list of n activities of the given kinds on the given days; the
\* id of an activity is its position in the list as fetched.
MkInput(n, kinds, days) ==
    [k \in 1..n |-> MkActivity(k, kinds[k], days[k])]

---------------------------------------------------------------------------
(* The pipeline as a state machine *)

NoDate == [instant |-> 0, tzinfo |-> "None"]

InitLocals ==
    /\ ride_activities = <<>>
    /\ chains = <<>>
    /\ current_chain = NoChain
    /\ in_chain = FALSE
    /\ i = 0
    /\ is_chain_start = FALSE
    /\ is_chain_end = FALSE
    /\ distance_km = 0
    /\ activity_date = NoDate
    /\ html_content = NoHtml
    /\ website = NoFile
    /\ pc = "filter"

\* The code points the exhaustively enumerated text fields are made of: those
\* of the two markers.
CodePoints == {"U26D3", "UFE0F", "U200D", "U1F4A5"}

\* The optional texts of n code points (None counts with the empty text).
TextsOfLen(n) == IF n = 0 THEN {None, <<>>} ELSE [1..n -> CodePoints]

\* The texts the other field of the activity is drawn from.
SampleTexts ==
    { None, <<>>, <<"a">>, START, END, START \o <<"U200D">>,
      START \o END, END \o START }

\* One ride whose name (or description) runs over every text of at most
\* MaxTextLen code points, the other field over SampleTexts.
InitMarker ==
    /\ \E n \in 0..MaxTextLen, other \in SampleTexts, swap \in BOOLEAN :
          \E text \in TextsOfLen(n) :
              all_activities =
                  << MkActivity(1,
                                [name        |-> IF swap THEN other ELSE text,
                                 description |-> IF swap THEN text ELSE other,
                                 type        |-> "Ride",
                                 distance    |-> 1004],
                                1) >>
    /\ InitLocals

Init ==
    /\ \E n \in 0..MaxActs :
          \E kinds \in [1..n -> Catalogue], days \in DateAssignments(n) :
              all_activities = MkInput(n, kinds, days)
    /\ InitLocals

\* main, line 224.
FilterRides ==
    /\ pc = "filter"
    /\ ride_activities' = filter_ride_activities(all_activities)
    /\ pc' = "sort"
    /\ UNCHANGED <<all_activities, chains, current_chain, in_chain, i,
                   is_chain_start, is_chain_end, distance_km, activity_date,
                   html_content, website>>

\* aggregate_kilometers, lines 108-112.
SortAndReset ==
    /\ pc = "sort"
    /\ ride_activities' = SortByStartDate(ride_activities)
    /\ chains' = <<>>
    /\ current_chain' = NoChain
    /\ in_chain' = FALSE
    /\ i' = 1
    /\ pc' = "loop"
    /\ UNCHANGED <<all_activities, is_chain_start, is_chain_end, distance_km,
                   activity_date, html_content, website>>

\* Lines 115-122: the next activity is taken and its locals computed.
CheckMarkers ==
    /\ pc = "loop"
    /\ i <= Len(ride_activities)
    /\ LET loc == Locals(ride_activities[i])
       IN  /\ is_chain_start' = loc.is_chain_start
           /\ is_chain_end' = loc.is_chain_end
           /\ distance_km' = loc.distance_km
           /\ activity_date' = loc.activity_date
    /\ pc' = "body"
    /\ UNCHANGED <<all_activities, ride_activities, chains, current_chain,
                   in_chain, i, html_content, website>>

\* Lines 125-157: the chains are updated for the activity.
UpdateChains ==
    /\ pc = "body"
    /\ LET st  == [chains |-> chains, current_chain |-> current_chain,
                   in_chain |-> in_chain]
           loc == [is_chain_start |-> is_chain_start,
                   is_chain_end   |-> is_chain_end,
                   distance_km    |-> distance_km,
                   activity_date  |-> activity_date]
           new == ProcessActivity(st, ride_activities[i], loc)
       IN  /\ chains' = new.chains
           /\ current_chain' = new.current_chain
           /\ in_chain' = new.in_chain
    /\ i' = i + 1
    /\ pc' = "loop"
    /\ UNCHANGED <<all_activities, ride_activities, is_chain_start,
                   is_chain_end, distance_km, activity_date, html_content,
                   website>>

\* Lines 159-163: after the loop.
Finalize ==
    /\ pc = "loop"
    /\ i > Len(ride_activities)
    /\ chains' = FinalChains([chains |-> chains, current_chain |-> current_chain,
                              in_chain |-> in_chain])
    /\ pc' = "done"
    /\ UNCHANGED <<all_activities, ride_activities, current_chain, in_chain, i,
                   is_chain_start, is_chain_end, distance_km, activity_date,
                   html_content, website>>

\* html main, line 392 and the except branch at line 397: generate_html
\* returns the document, or raises and main prints the error.
GenerateHtml ==
    /\ pc = "done"
    /\ IF generate_html_raises(chains)
       THEN /\ pc' = "error"
            /\ UNCHANGED html_content
       ELSE /\ html_content' = generate_html(chains)
            /\ pc' = "generated"
    /\ UNCHANGED <<all_activities, ride_activities, chains, current_chain,
                   in_chain, i, is_chain_start, is_chain_end, distance_km,
                   activity_date, website>>

\* html main, line 393: save_html writes the document.
SaveHtml ==
    /\ pc = "generated"
    /\ website' = html_content
    /\ pc' = "saved"
    /\ UNCHANGED <<all_activities, ride_activities, chains, current_chain,
                   in_chain, i, is_chain_start, is_chain_end, distance_km,
                   activity_date, html_content>>

Next ==
    \/ FilterRides
    \/ SortAndReset
    \/ CheckMarkers
    \/ UpdateChains
    \/ Finalize
    \/ GenerateHtml
    \/ SaveHtml

Spec == Init /\ [][Next]_vars

\* The same program on the inputs of InitMarker.
SpecMarker == InitMarker /\ [][Next]_vars

---------------------------------------------------------------------------
(* Vocabulary of the properties *)

\* The chains emitted so far.
Emitted == {chains[k] : k \in 1..Len(chains)}

\* Whether a chain is open.
ChainOpen == in_chain /\ current_chain # NoChain

\* The ids of the members of a chain, in order.
MemberSeq(chain) == [k \in 1..Len(chain.activities) |-> chain.activities[k].id]

MemberIds(chain) == {chain.activities[k].id : k \in 1..Len(chain.activities)}

\* The fetched activity with the given id.
ActivityById(id) ==
    CHOOSE a \in {all_activities[k] : k \in 1..Len(all_activities)} : a.id = id

RECURSIVE SumSeq(_)
SumSeq(numbers) ==
    IF numbers = <<>> THEN 0
    ELSE SumSeq(SubSeq(numbers, 1, Len(numbers) - 1)) + numbers[Len(numbers)]

LastMember(chain) == chain.activities[Len(chain.activities)]

\* `sub` occurs in `text`: text is some prefix, then sub, then some suffix.
Occurs(text, sub) ==
    \E a \in 0..Len(text) : \E b \in a..Len(text) :
        text = SubSeq(text, 1, a) \o sub \o SubSeq(text, b + 1, Len(text))

\* A field that is present, holds the start marker and does not hold the end
\* marker.
FieldSignalsStart(text) ==
    /\ text # None
    /\ Len(text) > 0
    /\ Occurs(text, CHAIN_START_EMOJI)
    /\ ~Occurs(text, CHAIN_END_EMOJI)

---------------------------------------------------------------------------
(* C1 *)

\* C1: every chain in the output list has at least one member, at every
\* point of the run (after a preemption by a new start, after an end marker
\* and after the end of the input).
C1_EmittedChainsNonEmpty ==
    \A chain \in Emitted : chain.activities # <<>>

\* The run has ended with three chains: one sealed by a new start, one by an
\* end marker and one by the end of the input.
C1_Witness ==
    /\ pc = "done"
    /\ Len(chains) = 3
    /\ ~LastMember(chains[1]).is_chain_end
    /\ LastMember(chains[2]).is_chain_end
    /\ ChainOpen
    /\ chains[3] = current_chain

---------------------------------------------------------------------------
(* C7 *)

\* C7: has_chain_start_emoji is true exactly when the name or the description
\* is present, non-empty, holds the start marker and does not itself hold the
\* end marker, each field judged on its own; a field that is exactly the end
\* marker gives no start signal.
C7_StartIffAFieldSignals ==
    pc = "body" =>
        LET a == ride_activities[i]
        IN  /\ is_chain_start =
                 (FieldSignalsStart(a.name) \/ FieldSignalsStart(a.description))
            /\ (a.name = CHAIN_END_EMOJI /\ ~FieldSignalsStart(a.description))
                 => ~is_chain_start
            /\ (a.description = CHAIN_END_EMOJI /\ ~FieldSignalsStart(a.name))
                 => ~is_chain_start

\* The name holds the end marker, the description signals a start, and the
\* activity was classified as a start.
C7_Witness ==
    /\ pc = "body"
    /\ ride_activities[i].name # None
    /\ Occurs(ride_activities[i].name, CHAIN_END_EMOJI)
    /\ FieldSignalsStart(ride_activities[i].description)
    /\ is_chain_start

---------------------------------------------------------------------------
(* C8 *)

\* The unrounded kilometres of the members of a chain, from the fetched
\* activities.
UnroundedKm(chain) ==
    [k \in 1..Len(chain.activities) |->
        Kilometers(ActivityById(chain.activities[k].id).distance)]

\* The distance_km values stored in the members of a chain.
StoredKm(chain) ==
    [k \in 1..Len(chain.activities) |-> chain.activities[k].distance_km]

\* C8: the total_km of every emitted chain is the sum of the unrounded
\* kilometres of its members.
C8_TotalIsUnroundedSum ==
    \A chain \in Emitted : chain.total_km = SumSeq(UnroundedKm(chain))

\* An emitted chain whose stored, rounded distances sum to something else
\* than its total_km.
C8_Witness ==
    \E chain \in Emitted :
        /\ Len(chain.activities) >= 2
        /\ SumSeq(StoredKm(chain)) # chain.total_km
        /\ chain.total_km = SumSeq(UnroundedKm(chain))

---------------------------------------------------------------------------
(* C2 *)

\* The ids of ride_activities[from..to], in order.
RideIds(from, to) == [k \in 1..(to + 1 - from) |-> ride_activities[from + k - 1].id]

\* The ids of the members of all chains, emitted or open.
AllMemberIds ==
    UNION {MemberIds(chain) : chain \in Emitted}
        \cup (IF current_chain # NoChain THEN MemberIds(current_chain) ELSE {})

C2_Step ==
    (pc = "body" /\ is_chain_start /\ is_chain_end) =>
        LET a     == ride_activities[i]
            prior == IF ChainOpen THEN Append(chains, current_chain) ELSE chains
        IN  /\ Len(chains') = Len(prior) + 1
            /\ SubSeq(chains', 1, Len(prior)) = prior
            /\ ChainOpen => a.id \notin MemberIds(chains'[Len(prior)])
            /\ LET new == chains'[Len(chains')]
               IN  /\ MemberSeq(new) = <<a.id>>
                   /\ new.activities[1].is_chain_start = TRUE
                   /\ new.activities[1].is_chain_end = TRUE
            /\ current_chain' = NoChain
            /\ in_chain' = FALSE

\* C2: the step that processes an activity with both markers appends the
\* previously open chain (if any) without this activity, emits a new chain whose
\* only member is this activity flagged as start and as end, and leaves no
\* chain open.
C2_BothMarkersStep == [][C2_Step]_vars

\* An activity with both markers has just been processed while a chain was
\* open: that chain and the singleton are the last two chains.
C2_Witness ==
    /\ pc = "loop"
    /\ i > 2
    /\ is_chain_start /\ is_chain_end
    /\ Len(chains) >= 2
    /\ MemberSeq(chains[Len(chains)]) = <<ride_activities[i - 1].id>>
    /\ LastMember(chains[Len(chains) - 1]).id = ride_activities[i - 2].id
    /\ ~LastMember(chains[Len(chains) - 1]).is_chain_end
    /\ ~ChainOpen

---------------------------------------------------------------------------
(* C3 *)

C3_Step ==
    (pc = "body" /\ is_chain_start /\ ChainOpen) =>
        LET a == ride_activities[i]
        IN  /\ Len(chains') >= Len(chains) + 1
            /\ SubSeq(chains', 1, Len(chains)) = chains
            /\ chains'[Len(chains) + 1] = current_chain
            /\ current_chain.activities # <<>>
            /\ current_chain.activities[1].is_chain_start
            /\ \E j \in 1..(i - 1) : MemberSeq(current_chain) = RideIds(j, i - 1)
            /\ IF is_chain_end
               THEN /\ Len(chains') = Len(chains) + 2
                    /\ chains'[Len(chains) + 2].activities[1].id = a.id
               ELSE /\ Len(chains') = Len(chains) + 1
                    /\ MemberSeq(current_chain') = <<a.id>>
                    /\ in_chain'

C3_State ==
    /\ \A k, l \in 1..Len(chains) :
          k # l => MemberIds(chains[k]) \cap MemberIds(chains[l]) = {}
    /\ pc = "done" =>
          LET n == Len(ride_activities)
          IN  /\ \A s \in 1..n :
                    ( /\ has_chain_start_emoji(ride_activities[s])
                      /\ \A k \in s..n : ~has_chain_end_emoji(ride_activities[k])
                      /\ \A k \in (s + 1)..n : ~has_chain_start_emoji(ride_activities[k]) )
                    => /\ chains # <<>>
                       /\ MemberSeq(chains[Len(chains)]) = RideIds(s, n)
              /\ ( /\ n = 2
                   /\ \A k \in 1..2 : /\ has_chain_start_emoji(ride_activities[k])
                                      /\ ~has_chain_end_emoji(ride_activities[k]) )
                 => /\ Len(chains) = 2
                    /\ MemberSeq(chains[1]) = <<ride_activities[1].id>>
                    /\ MemberSeq(chains[2]) = <<ride_activities[2].id>>

\* C3: a start marker met while a chain is open emits that chain, once, with
\* exactly the activities from its own start up to the one before the new
\* start, and opens a chain whose first member is the new start activity; a
\* chain that no end marker closes is emitted at the end of the input, so two
\* start-only activities give two singleton chains.
C3_StartPreemptsOpenChain == [][C3_Step]_vars /\ []C3_State

\* Two start-only rides have been processed: two singleton chains, the first
\* sealed by the second start, the second at the end of the input.
C3_Witness ==
    /\ pc = "done"
    /\ Len(ride_activities) = 2
    /\ Len(chains) = 2
    /\ MemberSeq(chains[1]) = <<ride_activities[1].id>>
    /\ MemberSeq(chains[2]) = <<ride_activities[2].id>>
    /\ chains[1].activities[1].is_chain_start /\ ~chains[1].activities[1].is_chain_end
    /\ chains[2].activities[1].is_chain_start /\ ~chains[2].activities[1].is_chain_end

---------------------------------------------------------------------------
(* C4 *)

\* The previous activity closed a chain with its end marker.
PreviousClosedChain ==
    /\ i > 1
    /\ has_chain_end_emoji(ride_activities[i - 1])
    /\ chains # <<>>
    /\ LastMember(chains[Len(chains)]).id = ride_activities[i - 1].id

C4_Step ==
    /\ (pc = "body" /\ is_chain_end /\ (is_chain_start \/ ChainOpen)) =>
          LET a == ride_activities[i]
          IN  /\ chains' # <<>>
              /\ LET emitted == chains'[Len(chains')]
                 IN  /\ emitted.activities # <<>>
                     /\ LastMember(emitted).id = a.id
                     /\ LastMember(emitted).is_chain_end
                     /\ emitted.end_date = ReplaceTzinfoNone(a.start_date)
                     /\ ~is_chain_start =>
                          /\ chains' = Append(chains, emitted)
                          /\ SubSeq(emitted.activities, 1, Len(emitted.activities) - 1)
                               = current_chain.activities
                          /\ emitted.total_km
                               = current_chain.total_km + Kilometers(a.distance)
                     /\ is_chain_start =>
                          /\ Len(emitted.activities) = 1
                          /\ emitted.total_km = Kilometers(a.distance)
              /\ current_chain' = NoChain
              /\ in_chain' = FALSE
    /\ (pc = "body" /\ ~is_chain_start /\ PreviousClosedChain) =>
          /\ UNCHANGED <<chains, current_chain, in_chain>>
          /\ current_chain = NoChain
          /\ ride_activities[i].id \notin AllMemberIds'

\* C4: an end-marker activity processed while a chain is open (at line 140,
\* i.e. open before it or opened by its own start marker) becomes the last
\* member of that chain, with its distance in total_km and its date as
\* end_date, before the chain is emitted; afterwards no chain is open, and the
\* next activity without a start marker joins no chain.
C4_EndMarkerClosesChain == [][C4_Step]_vars

\* A start, an end and a plain ride have been processed: one chain of the
\* first two, closed by the end marker, and the third ride in no chain.
C4_Witness ==
    /\ pc = "done"
    /\ Len(ride_activities) = 3
    /\ Len(chains) = 1
    /\ MemberSeq(chains[1]) = RideIds(1, 2)
    /\ LastMember(chains[1]).is_chain_end
    /\ ~LastMember(chains[1]).is_chain_start
    /\ chains[1].total_km = Kilometers(ride_activities[1].distance)
                              + Kilometers(ride_activities[2].distance)
    /\ chains[1].end_date.instant = ride_activities[2].start_date.instant
    /\ ~ChainOpen

---------------------------------------------------------------------------
(* C10 *)

C10_Step ==
    /\ (pc = "body" /\ ~is_chain_start /\ ~ChainOpen) =>
          /\ UNCHANGED <<chains, current_chain, in_chain>>
          /\ ride_activities[i].id \notin AllMemberIds'
    /\ AllMemberIds' \subseteq
          AllMemberIds \cup (IF pc = "body" THEN {ride_activities[i].id} ELSE {})

C10_State ==
    ( /\ pc = "done"
      /\ \A k \in 1..Len(ride_activities) : ~has_chain_start_emoji(ride_activities[k]) )
    => chains = <<>>

\* C10: an activity without a start marker that is processed while no chain
\* is open leaves the output list and the open-chain state unchanged and is in
\* no chain, then or later (an activity enters a chain only in its own
\* iteration); this includes an activity with only the end marker, and an
\* input without any start-marker activity gives no chain.
C10_NoStartNoChainDropped == [][C10_Step]_vars /\ []C10_State

\* Two or more rides, one of them with an end marker and none with a start
\* marker, have all been processed and dropped.
C10_Witness ==
    /\ pc = "done"
    /\ Len(ride_activities) >= 2
    /\ \E k \in 1..Len(ride_activities) : has_chain_end_emoji(ride_activities[k])
    /\ \A k \in 1..Len(ride_activities) : ~has_chain_start_emoji(ride_activities[k])
    /\ chains = <<>>
    /\ ~ChainOpen

---------------------------------------------------------------------------
(* C5 *)

\* No two activities of the list share a start timestamp.
DistinctDates(activities) ==
    \A j, k \in 1..Len(activities) :
        j # k => activities[j].start_date.instant # activities[k].start_date.instant

\* Every reordering of a list.
Permutations(activities) ==
    LET n == Len(activities)
    IN  { [k \in 1..n |-> activities[f[k]]] :
            f \in {g \in [1..n -> 1..n] : \A j, k \in 1..n : j # k => g[j] # g[k]} }

\* C5: when the start timestamps are pairwise distinct, the chains returned for
\* the list as given are the chains aggregate_kilometers returns for every
\* permutation of that list.
C5_PermutationInvariant ==
    (pc = "done" /\ DistinctDates(ride_activities)) =>
        \A p \in Permutations(ride_activities) : aggregate_kilometers(p) = chains

\* Three rides with distinct timestamps came in an order that is not the
\* chronological one and gave at least two chains.
C5_Witness ==
    /\ pc = "done"
    /\ Len(ride_activities) = 3
    /\ DistinctDates(ride_activities)
    /\ filter_ride_activities(all_activities) # ride_activities
    /\ Len(chains) >= 2

---------------------------------------------------------------------------
(* C6 *)

\* The chain is ride_activities[j..k] and starts with a start-marker activity.
IsRunFromStart(chain, j, k) ==
    /\ j <= k
    /\ MemberSeq(chain) = RideIds(j, k)
    /\ has_chain_start_emoji(ride_activities[j])

\* C6 as stated: every emitted chain is a contiguous run of the sorted rides
\* that begins with a start-marker activity and ends with an end-marker
\* activity or with the last activity of the input.
C6_Original ==
    pc = "done" =>
        \A chain \in Emitted :
            \E j, k \in 1..Len(ride_activities) :
                /\ IsRunFromStart(chain, j, k)
                /\ \/ has_chain_end_emoji(ride_activities[k])
                   \/ k = Len(ride_activities)

\* C6, amended: every emitted chain is a contiguous run of the sorted rides
\* that begins with a start-marker activity and ends with an end-marker
\* activity, with the last activity of the input, or with the activity just
\* before the next start-marker activity.
C6_ChainsAreRuns ==
    pc = "done" =>
        \A chain \in Emitted :
            \E j, k \in 1..Len(ride_activities) :
                /\ IsRunFromStart(chain, j, k)
                /\ \/ has_chain_end_emoji(ride_activities[k])
                   \/ k = Len(ride_activities)
                   \/ has_chain_start_emoji(ride_activities[k + 1])

\* A chain was sealed by the next start: its last member has no end marker
\* and is not the last ride.
C6_Witness ==
    /\ pc = "done"
    /\ \E chain \in Emitted :
          \E j, k \in 1..Len(ride_activities) :
              /\ IsRunFromStart(chain, j, k)
              /\ ~has_chain_end_emoji(ride_activities[k])
              /\ k < Len(ride_activities)
              /\ has_chain_start_emoji(ride_activities[k + 1])

---------------------------------------------------------------------------
(* C9 *)

Day(activity) == activity.start_date.instant

\* The fetched rides dated from day `from` to day `to`.
RidesBetween(from, to) ==
    {a \in {all_activities[k] : k \in 1..Len(all_activities)} :
        a.type = "Ride" /\ from <= Day(a) /\ Day(a) <= to}

\* C9: no activity of another type than Ride is ever a member of a chain; and
\* (timestamps distinct) a Ride start and the next Ride end after it, with only
\* unmarked rides between them, bound one chain made of exactly the rides of
\* that period, with their distances as total, whatever activities of other
\* types, marked or not, lie in between.
C9_NonRidesNeverInChains ==
    /\ \A id \in AllMemberIds : ActivityById(id).type = "Ride"
    /\ (pc = "done" /\ DistinctDates(all_activities)) =>
          \A s, e \in RidesBetween(1, Len(all_activities)) :
              ( /\ has_chain_start_emoji(s) /\ ~has_chain_end_emoji(s)
                /\ has_chain_end_emoji(e) /\ ~has_chain_start_emoji(e)
                /\ Day(s) < Day(e)
                /\ \A m \in RidesBetween(Day(s) + 1, Day(e) - 1) :
                      ~has_chain_start_emoji(m) /\ ~has_chain_end_emoji(m) )
              => \E chain \in Emitted :
                    /\ chain.activities # <<>>
                    /\ chain.activities[1].id = s.id
                    /\ LastMember(chain).id = e.id
                    /\ MemberIds(chain) = {m.id : m \in RidesBetween(Day(s), Day(e))}
                    /\ Len(chain.activities) = Cardinality(MemberIds(chain))
                    /\ chain.total_km = SumSeq(UnroundedKm(chain))

\* A run that carries a marker is dated between the first and the last member
\* of an emitted chain, which holds the two rides around it.
C9_Witness ==
    /\ pc = "done"
    /\ \E k \in 1..Len(all_activities) :
          /\ all_activities[k].type = "Run"
          /\ has_chain_start_emoji(all_activities[k])
                \/ has_chain_end_emoji(all_activities[k])
          /\ \E chain \in Emitted :
                /\ Len(chain.activities) = 2
                /\ chain.start_date.instant < Day(all_activities[k])
                /\ Day(all_activities[k]) < chain.end_date.instant
                /\ chain.activities[1].is_chain_start
                /\ LastMember(chain).is_chain_end

---------------------------------------------------------------------------
(* C11 *)

\* C11: the chains of the output list are in non-decreasing start_date order,
\* and in each of them start_date is the date of the first member and end_date
\* the date of the last member, so that start_date <= end_date.
C11_ChainsOrderedByStartDate ==
    /\ \A k \in 1..Len(chains) : \A l \in 1..Len(chains) :
          k < l => chains[k].start_date.instant <= chains[l].start_date.instant
    /\ \A chain \in Emitted :
          /\ chain.activities # <<>>
          /\ chain.start_date = chain.activities[1].date
          /\ chain.end_date = LastMember(chain).date
          /\ chain.start_date.instant <= chain.end_date.instant

\* The list came in an order that is not the chronological one and gave two
\* chains that start on different days, the first of them spanning several
\* days.
C11_Witness ==
    /\ pc = "done"
    /\ filter_ride_activities(all_activities) # ride_activities
    /\ Len(chains) = 2
    /\ chains[1].start_date.instant < chains[1].end_date.instant
    /\ chains[1].end_date.instant < chains[2].start_date.instant

---------------------------------------------------------------------------
(* C12 *)

\* C12 as stated: generate_html returns a document for every chain list that
\* aggregate_kilometers produces, a chain with total_km = 0 included: main
\* never takes its error branch, and a run that has generated the document
\* holds a section for every chain.
C12_GenerateHtmlNeverRaises ==
    /\ pc # "error"
    /\ pc \in {"generated", "saved"} =>
          Len(html_content.sections) = Len(chains)

=============================================================================
